---- MODULE Spec2Model ----
(***************************************************************************)
(* Model of the browser pool and batching dispatcher of                    *)
(* src/cases/drissionpage_case/main.py (class DPCrawler).                  *)
(*                                                                         *)
(* A browser is identified by its address, which is the local port it was  *)
(* started on.  A QueueMessage is modelled by the browser it carries; its  *)
(* timestamp is never read by the pool and is left out.                    *)
(*                                                                         *)
(* The module also models key_lock and the dispatcher of                   *)
(* src/demos/drissionpage_demo/main.py, which share the Lock objects and   *)
(* the thread variables of the DPCrawler model, and, each with a           *)
(* specification of its own, the download retry of Crawler.download_img    *)
(* and generate_upsert_sql and the query builder of src/tools/mysql.py.    *)
(***************************************************************************)
EXTENDS Integers, Sequences, FiniteSets, TLC

\* ---------------------------------------------------------------- bounds
\* largest pool_size argument explored
MaxPool == 2
\* number of tasks handed to crawl_many over the life of one DPCrawler (and
\* number of run calls the demo dispatcher submits)
MaxTasks == 3
\* number of crawl_many calls made on one DPCrawler
MaxRuns == 1
\* number of ports of the scanned range that are explored
PortSpan == 2
\* threads of the concurrent browser_lock scenario
LockThreads == 2
\* value of MAX_WORKERS explored for the demo dispatcher (8 in the source)
MaxWorkers == 2

\* ------------------------------------------------------ program constants
\* port_area[0] of get_port_list
PortLo == 20000

\* MAX_WORKERS of src/demos/drissionpage_demo/main.py: browsers, executor
\* threads and maxsize of cr_list
MAX_WORKERS == MaxWorkers

\* port_area of get_port_list: the range [lo, hi) that is scanned
port_area == <<PortLo, PortLo + PortSpan>>

VARIABLES
  \* ---- main thread: DPCrawler.__init__ and crawl_many
  mpc,              \* position of the main thread
  pool_size,        \* self.pool_size
  port,             \* loop variable of get_port_list
  available_ports,  \* local list of get_port_list
  probeLog,         \* answers is_port_available gave, in probe order
  port_list,        \* self.port_list
  initIdx,          \* number of ports initialize_browser has handled
  results,          \* self.results: the futures, named by their task
  results_max_cnt,  \* self.results_max_cnt
  cnt,              \* local cnt of crawl_many
  task_list,        \* argument of the running crawl_many call
  taskIdx,          \* number of tasks of task_list already submitted
  yielded,          \* futures as_completed has yielded in this barrier
  drained,          \* tasks whose outcome was waited for, logged and counted
  summary,          \* count reported by the last crawl_many return (-1: none)
  runs,             \* crawl_many calls made so far
  tasksUsed,        \* tasks handed to crawl_many so far
  \* ---- pool and executor
  browser_queue,    \* self.browser_queue (FIFO, maxsize = pool_size)
  workq,            \* work queue of the ThreadPoolExecutor
  outcomes,         \* how rule calls have ended so far: "success", "failed" (logged)
  releases,         \* return_browser calls completed per task
  \* ---- threads running crawl_one / browser_lock, named by their task
  pc,               \* position of the thread
  browser,          \* local variable browser of crawl_one / browser_lock
  lock,             \* local variable lock of browser_lock (0: unset)
  holding,          \* browser the thread has checked out (0: none)
  \* ---- lock registry
  BROWSER_LOCK,     \* module-level dict: address -> Lock object
  locks,            \* Lock objects created so far: locks[i] is the owner (0: free)
  \* ---- concurrent browser_lock scenario
  counter,          \* per address: counter incremented inside the locked body
  tmp,              \* value of counter a thread read
  bodies,           \* locked bodies completed, per address
  \* ---- exceptions leaving a locked body
  exc,              \* per thread: an exception is propagating out of the body
  \* ---- key_lock of src/demos/drissionpage_demo/main.py
  key,              \* argument key of the thread's key_lock call (NoKey: none)
  _lock_dict,       \* module-level dict: key -> Lock object
  _dict_lock,       \* module-level Lock guarding _lock_dict: its owner (0: free)
  \* ---- a return_browser call made outside crawl_one
  stray,            \* browser passed to the call in progress (0: no such call)
  \* ---- main thread and queue of src/demos/drissionpage_demo/main.py
  dpc,              \* position of the demo's main thread ("off": not running)
  cid,              \* loop variable of the loop that starts the browsers
  cr_list,          \* cr_list (FIFO, maxsize = MAX_WORKERS); an item {cid: cr} is named by cid
  submitted,        \* number of run calls submitted: len(tasks)
  \* ---- Crawler.save_data / download_img of src/cases/drissionpage_case/main.py
  download,         \* the download loop and the frames of download_img (a record)
  \* ---- DBOperator.generate_upsert_sql of src/tools/mysql.py
  upsert,           \* arguments and locals of the generator (a record)
  \* ---- MySQLHelper of src/tools/mysql.py
  helper            \* query_builder of one helper and the queries it ran (a record)

mainVars == <<mpc, pool_size, port, available_ports, probeLog, port_list, initIdx,
              results, results_max_cnt, cnt, task_list, taskIdx, yielded, drained,
              summary, runs, tasksUsed>>
scanVars == <<port, available_ports, probeLog>>
loopVars == <<results, cnt, task_list, taskIdx, yielded, drained, summary, runs, tasksUsed>>
execVars == <<workq, outcomes, releases>>
workerVars == <<pc, browser, lock, holding>>
lockVars == <<BROWSER_LOCK, locks>>
harnessVars == <<counter, tmp, bodies>>
keyVars == <<exc, key, _lock_dict, _dict_lock>>
strayVars == <<stray>>
demoVars == <<dpc, cid, cr_list, submitted>>
moreVars == <<strayVars, demoVars>>
toolVars == <<download, upsert, helper>>
otherVars == <<keyVars, moreVars, toolVars>>

vars == <<mainVars, browser_queue, execVars, workerVars, lockVars, harnessVars, otherVars>>

Ports == port_area[1] .. (port_area[2] - 1)
Tasks == 1 .. MaxTasks

\* ------------------------------------------------------------- helpers
Range(s) == {s[i] : i \in 1 .. Len(s)}

\* the ports a probe found bindable
Bindable(log) == {log[i].port : i \in {j \in 1 .. Len(log) : log[j].ok}}

\* ------------------------------------------------- queue.Queue operations
\* an empty() test that never sees an item
QueueEmptyAlways(q) == TRUE

\* Queue.empty()
QueueEmpty(q) == Len(q) = 0

\* a get that returns the oldest item and leaves it in the queue
QueuePeek(q) == [item |-> Head(q), rest |-> q]

\* a get that removes the oldest item and returns the newest one
QueueGetLast(q) == [item |-> q[Len(q)], rest |-> Tail(q)]

\* Queue.get(): removes and returns the oldest item; blocks while there is none
QueueGet(q) == [item |-> Head(q), rest |-> Tail(q)]

\* the put of a queue without maxsize: never blocks
QueueCanPutAlways(q, maxsize) == TRUE

\* Queue.put(): blocks while a queue of maxsize > 0 holds maxsize items
QueueCanPut(q, maxsize) == maxsize <= 0 \/ Len(q) < maxsize

\* ---------------------------------------------------------- __init__
\* a break test that is off by one
ScanFullOff(n, size) == n > size

\* the break test of get_port_list
ScanFull(n, size) == n >= size

\* one iteration of the for loop of get_port_list
ProbePort ==
  /\ mpc = "scan"
  /\ port < port_area[2]
  /\ \E ok \in BOOLEAN :
       /\ probeLog' = Append(probeLog, [port |-> port, ok |-> ok])
       /\ IF ok
            THEN /\ available_ports' = Append(available_ports, port)
                 /\ IF ScanFull(Len(available_ports'), pool_size)
                      THEN mpc' = "scan_done" /\ port' = port
                      ELSE mpc' = mpc /\ port' = port + 1
            ELSE /\ available_ports' = available_ports
                 /\ mpc' = mpc
                 /\ port' = port + 1
  /\ UNCHANGED <<pool_size, port_list, initIdx, results_max_cnt, loopVars,
                 browser_queue, execVars, workerVars, lockVars, harnessVars, otherVars>>

\* get_port_list returns (after the break or with the range exhausted);
\* __init__ stores the list and creates the queue
GetPortListReturn ==
  /\ \/ mpc = "scan_done"
     \/ mpc = "scan" /\ port >= port_area[2]
  /\ port_list' = available_ports
  /\ browser_queue' = <<>>
  /\ mpc' = "init"
  /\ UNCHANGED <<pool_size, scanVars, initIdx, results_max_cnt, loopVars,
                 execVars, workerVars, lockVars, harnessVars, otherVars>>

\* one iteration of the for loop of initialize_browser: Chromium(opts)
\* either starts a browser, which is put in the queue, or raises
InitializeBrowser ==
  /\ mpc = "init"
  /\ initIdx < Len(port_list)
  /\ \E started \in BOOLEAN :
       IF started
         THEN /\ QueueCanPut(browser_queue, pool_size)
              /\ browser_queue' = Append(browser_queue, port_list[initIdx + 1])
              /\ initIdx' = initIdx + 1
              /\ mpc' = mpc
         ELSE /\ mpc' = "aborted"
              /\ UNCHANGED <<browser_queue, initIdx>>
  /\ UNCHANGED <<pool_size, scanVars, port_list, results_max_cnt, loopVars,
                 execVars, workerVars, lockVars, harnessVars, otherVars>>

\* the end of __init__: self.results and self.results_max_cnt
InitDone ==
  /\ mpc = "init"
  /\ initIdx = Len(port_list)
  /\ results' = <<>>
  /\ results_max_cnt' = pool_size * 2
  /\ mpc' = "ready"
  /\ UNCHANGED <<pool_size, scanVars, port_list, initIdx, cnt, task_list, taskIdx,
                 yielded, drained, summary, runs, tasksUsed,
                 browser_queue, execVars, workerVars, lockVars, harnessVars, otherVars>>

\* ------------------------------------------ ThreadPoolExecutor, futures
\* the tasks a worker thread of the executor is running crawl_one for
Running == {t \in DOMAIN pc : pc[t] \notin {"none", "queued", "finished"}}

\* a done() that is true as soon as the future exists
FutureDoneEarly(t) == pc[t] # "none"

\* Future.done(): crawl_one has returned for this task
FutureDone(t) == pc[t] = "finished"

\* -------------------------------------------------------- crawl_many
\* a barrier test that is off by one
BarrierDueOff(n, max) == n > max

\* the barrier test of crawl_many
BarrierDue(n, max) == n >= max

\* a caller invokes crawl_many(task_list) on the constructed DPCrawler
CallCrawlMany ==
  /\ mpc \in {"ready", "returned"}
  /\ runs < MaxRuns
  /\ \E n \in 0 .. (MaxTasks - tasksUsed) :
       /\ task_list' = [i \in 1 .. n |-> tasksUsed + i]
       /\ tasksUsed' = tasksUsed + n
  /\ cnt' = 0
  /\ taskIdx' = 0
  /\ runs' = runs + 1
  /\ mpc' = "loop"
  /\ UNCHANGED <<pool_size, scanVars, port_list, initIdx, results, results_max_cnt,
                 yielded, drained, summary,
                 browser_queue, execVars, workerVars, lockVars, harnessVars, otherVars>>

\* one iteration of the for loop: executor.submit, results.append, barrier test
Submit ==
  /\ mpc = "loop"
  /\ taskIdx < Len(task_list)
  /\ LET t == task_list[taskIdx + 1] IN
       /\ workq' = Append(workq, t)
       /\ pc' = [pc EXCEPT ![t] = "queued"]
       /\ results' = Append(results, t)
       /\ taskIdx' = taskIdx + 1
       /\ mpc' = IF BarrierDue(Len(results'), results_max_cnt) THEN "barrier" ELSE "loop"
  /\ UNCHANGED <<pool_size, scanVars, port_list, initIdx, results_max_cnt, cnt, task_list,
                 yielded, drained, summary, runs, tasksUsed,
                 browser_queue, outcomes, releases, browser, lock, holding,
                 lockVars, harnessVars, otherVars>>

\* as_completed yields one more finished future: its result is logged and counted
DrainOne ==
  /\ mpc = "barrier"
  /\ \E t \in Range(results) \ yielded :
       /\ FutureDone(t)
       /\ yielded' = yielded \cup {t}
       /\ drained' = drained \cup {t}
  /\ cnt' = cnt + 1
  /\ UNCHANGED <<mpc, pool_size, scanVars, port_list, initIdx, results, results_max_cnt,
                 task_list, taskIdx, summary, runs, tasksUsed,
                 browser_queue, execVars, workerVars, lockVars, harnessVars, otherVars>>

\* as_completed is exhausted: self.results.clear()
BarrierClear ==
  /\ mpc = "barrier"
  /\ Range(results) \subseteq yielded
  /\ results' = <<>>
  /\ yielded' = {}
  /\ mpc' = "loop"
  /\ UNCHANGED <<pool_size, scanVars, port_list, initIdx, results_max_cnt, cnt,
                 task_list, taskIdx, drained, summary, runs, tasksUsed,
                 browser_queue, execVars, workerVars, lockVars, harnessVars, otherVars>>

\* the for loop is over: the with block waits for the workers
\* (executor.shutdown(wait=True)) and crawl_many returns the count
CrawlManyReturn ==
  /\ mpc = "loop"
  /\ taskIdx = Len(task_list)
  /\ workq = <<>>
  /\ Running = {}
  /\ summary' = cnt
  /\ mpc' = "returned"
  /\ UNCHANGED <<pool_size, scanVars, port_list, initIdx, results, results_max_cnt, cnt,
                 task_list, taskIdx, yielded, drained, runs, tasksUsed,
                 browser_queue, execVars, workerVars, lockVars, harnessVars, otherVars>>

\* ---------------------------------------------------- executor workers
\* a free worker thread (there are max_workers = pool_size of them) takes the
\* oldest work item and starts crawl_one(task)
Pickup(t) ==
  /\ pc[t] = "queued"
  /\ workq # <<>>
  /\ Head(workq) = t
  /\ Cardinality(Running) < pool_size
  /\ workq' = Tail(workq)
  /\ pc' = [pc EXCEPT ![t] = "acq_check"]
  /\ UNCHANGED <<mainVars, browser_queue, outcomes, releases, browser, lock, holding,
                 lockVars, harnessVars, otherVars>>

\* acquire_browser: the test `not self.browser_queue.empty()`; on an empty
\* queue the thread sleeps and tests again
AcquireCheck(t) ==
  /\ pc[t] = "acq_check"
  /\ ~QueueEmpty(browser_queue)
  /\ pc' = [pc EXCEPT ![t] = "acq_get"]
  /\ UNCHANGED <<mainVars, browser_queue, execVars, browser, lock, holding,
                 lockVars, harnessVars, otherVars>>

\* acquire_browser: self.browser_queue.get(), which blocks while the queue is
\* empty, and the return of the browser to crawl_one
AcquireGet(t) ==
  /\ pc[t] = "acq_get"
  /\ browser_queue # <<>>
  /\ LET got == QueueGet(browser_queue) IN
       /\ browser_queue' = got.rest
       /\ browser' = [browser EXCEPT ![t] = got.item]
       /\ holding' = [holding EXCEPT ![t] = got.item]
  /\ pc' = [pc EXCEPT ![t] = "lock_check"]
  /\ UNCHANGED <<mainVars, execVars, lock, lockVars, harnessVars, otherVars>>

\* --------------------------------------------------------- browser_lock
\* the test `browser.address not in BROWSER_LOCK`
LockCheck(t) ==
  /\ pc[t] = "lock_check"
  /\ pc' = [pc EXCEPT ![t] = IF browser[t] \notin DOMAIN BROWSER_LOCK
                               THEN "lock_insert" ELSE "lock_read"]
  /\ UNCHANGED <<mainVars, browser_queue, execVars, browser, lock, holding,
                 lockVars, harnessVars, otherVars>>

\* BROWSER_LOCK[browser.address] = threading.Lock()
LockInsert(t) ==
  /\ pc[t] = "lock_insert"
  /\ locks' = Append(locks, 0)
  /\ BROWSER_LOCK' = [a \in DOMAIN BROWSER_LOCK \cup {browser[t]} |->
                        IF a = browser[t] THEN Len(locks) + 1 ELSE BROWSER_LOCK[a]]
  /\ pc' = [pc EXCEPT ![t] = "lock_read"]
  /\ UNCHANGED <<mainVars, browser_queue, execVars, browser, lock, holding,
                 harnessVars, otherVars>>

\* lock = BROWSER_LOCK[browser.address]
LockRead(t) ==
  /\ pc[t] = "lock_read"
  /\ lock' = [lock EXCEPT ![t] = BROWSER_LOCK[browser[t]]]
  /\ pc' = [pc EXCEPT ![t] = "lock_acquire"]
  /\ UNCHANGED <<mainVars, browser_queue, execVars, browser, holding,
                 lockVars, harnessVars, otherVars>>

\* `with lock:` entered: blocks while the Lock object is owned
LockAcquire(t) ==
  /\ pc[t] = "lock_acquire"
  /\ locks[lock[t]] = 0
  /\ locks' = [locks EXCEPT ![lock[t]] = t]
  /\ pc' = [pc EXCEPT ![t] = "body"]
  /\ UNCHANGED <<mainVars, browser_queue, execVars, browser, lock, holding,
                 BROWSER_LOCK, harnessVars, otherVars>>

\* a release written after the yield without `with`/`finally`: it is skipped when
\* the body raises
ReleaseOnNormalExit(raised) == ~raised

\* whether leaving the `with lock:` block releases the Lock: __exit__ of a Lock
\* runs on every way out of the block, an exception included
ReleaseOnExit(raised) == TRUE

\* `with lock:` left, by the end of the body or by an exception raised in it:
\* the Lock object is released, the context manager (browser_lock, key_lock)
\* ends and so does the with statement of its caller; in crawl_one that is the
\* end of the function, so its future is finished and the worker thread is free
\* again.  An exception goes on to the caller.
LockRelease(t) ==
  /\ pc[t] = "unlock"
  /\ locks' = IF ReleaseOnExit(exc[t]) THEN [locks EXCEPT ![lock[t]] = 0] ELSE locks
  /\ browser' = [browser EXCEPT ![t] = 0]
  /\ lock' = [lock EXCEPT ![t] = 0]
  /\ pc' = [pc EXCEPT ![t] = "finished"]
  /\ UNCHANGED <<mainVars, browser_queue, execVars, holding, BROWSER_LOCK, harnessVars, otherVars>>

\* ------------------- key_lock of src/demos/drissionpage_demo/main.py
\* value of key for a thread that has made no key_lock call (the keys in use
\* are the cids of range(MAX_WORKERS), never negative)
NoKey == -1

\* a `with _dict_lock:` that does not wait for the owner
DictLockIgnored(owner) == TRUE

\* whether `with _dict_lock:` can be entered: the Lock has no owner
DictLockFree(owner) == owner = 0

\* with _dict_lock: entered
DictAcquire(t) ==
  /\ pc[t] = "dict_acquire"
  /\ DictLockFree(_dict_lock)
  /\ _dict_lock' = t
  /\ pc' = [pc EXCEPT ![t] = "key_check"]
  /\ UNCHANGED <<mainVars, browser_queue, execVars, browser, lock, holding,
                 lockVars, harnessVars, exc, key, _lock_dict, moreVars, toolVars>>

\* the test `key not in _lock_dict`
KeyCheck(t) ==
  /\ pc[t] = "key_check"
  /\ pc' = [pc EXCEPT ![t] = IF key[t] \notin DOMAIN _lock_dict
                               THEN "key_insert" ELSE "dict_release"]
  /\ UNCHANGED <<mainVars, browser_queue, execVars, browser, lock, holding,
                 lockVars, harnessVars, keyVars, moreVars, toolVars>>

\* _lock_dict[key] = threading.Lock()
KeyInsert(t) ==
  /\ pc[t] = "key_insert"
  /\ locks' = Append(locks, 0)
  /\ _lock_dict' = [k \in DOMAIN _lock_dict \cup {key[t]} |->
                      IF k = key[t] THEN Len(locks) + 1 ELSE _lock_dict[k]]
  /\ pc' = [pc EXCEPT ![t] = "dict_release"]
  /\ UNCHANGED <<mainVars, browser_queue, execVars, browser, lock, holding,
                 BROWSER_LOCK, harnessVars, exc, key, _dict_lock, moreVars, toolVars>>

\* with _dict_lock: left
DictRelease(t) ==
  /\ pc[t] = "dict_release"
  /\ _dict_lock' = 0
  /\ pc' = [pc EXCEPT ![t] = "key_read"]
  /\ UNCHANGED <<mainVars, browser_queue, execVars, browser, lock, holding,
                 lockVars, harnessVars, exc, key, _lock_dict, moreVars, toolVars>>

\* lock = _lock_dict[key]; `with lock:` follows as in browser_lock
KeyRead(t) ==
  /\ pc[t] = "key_read"
  /\ lock' = [lock EXCEPT ![t] = _lock_dict[key[t]]]
  /\ pc' = [pc EXCEPT ![t] = "lock_acquire"]
  /\ UNCHANGED <<mainVars, browser_queue, execVars, browser, holding,
                 lockVars, harnessVars, keyVars, moreVars, toolVars>>

\* ------------------------------------------------------------ crawl_one
\* a crawl_one without the except clause: a raised Exception leaves the with
\* block, skipping return_browser
AfterRuleNoCatch(raised) == IF raised THEN "unlock" ELSE "return"

\* where crawl_one continues after self.rule(browser, task): an Exception is
\* caught and logged by the except clause, and return_browser follows
AfterRule(raised) == "return"

\* self.rule(browser, task) runs to its end or raises an Exception
Rule(t) ==
  /\ pc[t] = "body"
  /\ \E raised \in BOOLEAN :
       /\ outcomes' = outcomes \cup {IF raised THEN "failed" ELSE "success"}
       /\ pc' = [pc EXCEPT ![t] = AfterRule(raised)]
  /\ UNCHANGED <<mainVars, browser_queue, workq, releases, browser, lock,
                 holding, lockVars, harnessVars, otherVars>>

\* return_browser: self.browser_queue.put(QueueMessage(browser, now))
ReturnBrowser(t) ==
  /\ pc[t] = "return"
  /\ QueueCanPut(browser_queue, pool_size)
  /\ browser_queue' = Append(browser_queue, browser[t])
  /\ holding' = [holding EXCEPT ![t] = 0]
  /\ releases' = [releases EXCEPT ![t] = @ + 1]
  /\ pc' = [pc EXCEPT ![t] = "unlock"]
  /\ UNCHANGED <<mainVars, workq, outcomes, browser, lock, lockVars, harnessVars, otherVars>>

\* ------------------------------------------------------- specification
\* DPCrawler(pool_size, load_mode) is being constructed; BROWSER_LOCK is the
\* empty dict of a freshly imported module.  pool_size is the value of
\* self.pool_size, that is the argument, or 3 when the argument is missing or 0.
\* A rule that raises raises an Exception (what the except clause of crawl_one
\* names); the port range is explored over its first PortSpan ports.
\* ---- fields of download
\* position of save_data's download loop
dl == download.dl
\* number of rows of dl_imgs
dl_imgs == download.dl_imgs
\* row the loop is at
img == download.img
\* frames of download_img, outermost first: where each one is
stack == download.stack
\* how the frame that just ended left: "none", "ret", "exc"
signal == download.signal
\* rows whose file an attempt wrote
wrote == download.wrote
\* requests.get calls made so far
attempts == download.attempts
\* a RecursionError was raised
overflow == download.overflow

\* save_data is not running: no download_img frame exists
DownloadOff == download = <<>>

\* ---- fields of upsert
\* position of the generator
up == upsert.up
\* argument data: the column set of each row, in order
rows == upsert.rows
\* argument batch_size
batch_size == upsert.batch_size
\* argument update_fields (<<>>: None)
update_fields == upsert.update_fields
\* result of get_data_columns_list: <<key, rows>> items in insertion order
data_columns_dict == upsert.data_columns_dict
\* index of the item the for loop is at
group == upsert.group
\* loop variable data: rows of the group not yet yielded
data == upsert.data
\* local variable updates: a list of columns or a string
updates == upsert.updates
\* the <<sql, params>> pairs yielded so far
batches == upsert.batches

\* no generate_upsert_sql call is running
UpsertOff == upsert = <<>>

\* ---- fields of helper
\* self.query_builder
query_builder == helper.query_builder
\* clauses the caller set for the query being built
asked == helper.asked
\* queries handed to cursor.execute: the statement and the clauses asked for
executed == helper.executed
\* commit calls that raised
failures == helper.failures

\* no MySQLHelper has been constructed
BuilderOff == helper = <<>>

Init ==
  /\ pool_size \in 1 .. MaxPool
  /\ mpc = "scan"
  /\ port = port_area[1]
  /\ available_ports = <<>>
  /\ probeLog = <<>>
  /\ port_list = <<>>
  /\ initIdx = 0
  /\ results = <<>>
  /\ results_max_cnt = 0
  /\ cnt = 0
  /\ task_list = <<>>
  /\ taskIdx = 0
  /\ yielded = {}
  /\ drained = {}
  /\ summary = -1
  /\ runs = 0
  /\ tasksUsed = 0
  /\ browser_queue = <<>>
  /\ workq = <<>>
  /\ outcomes = {}
  /\ releases = [t \in Tasks |-> 0]
  /\ pc = [t \in Tasks |-> "none"]
  /\ browser = [t \in Tasks |-> 0]
  /\ lock = [t \in Tasks |-> 0]
  /\ holding = [t \in Tasks |-> 0]
  /\ BROWSER_LOCK = <<>>
  /\ locks = <<>>
  /\ counter = <<>>
  /\ tmp = <<>>
  /\ bodies = <<>>
  /\ exc = [t \in Tasks |-> FALSE]
  /\ key = [t \in Tasks |-> NoKey]
  /\ _lock_dict = <<>>
  /\ _dict_lock = 0
  /\ stray = 0
  /\ dpc = "off"
  /\ cid = 0
  /\ cr_list = <<>>
  /\ submitted = 0
  /\ DownloadOff
  /\ UpsertOff
  /\ BuilderOff

Next ==
  \/ ProbePort
  \/ GetPortListReturn
  \/ InitializeBrowser
  \/ InitDone
  \/ CallCrawlMany
  \/ Submit
  \/ DrainOne
  \/ BarrierClear
  \/ CrawlManyReturn
  \/ \E t \in DOMAIN pc : Pickup(t)
  \/ \E t \in DOMAIN pc : AcquireCheck(t)
  \/ \E t \in DOMAIN pc : AcquireGet(t)
  \/ \E t \in DOMAIN pc : LockCheck(t)
  \/ \E t \in DOMAIN pc : LockInsert(t)
  \/ \E t \in DOMAIN pc : LockRead(t)
  \/ \E t \in DOMAIN pc : LockAcquire(t)
  \/ \E t \in DOMAIN pc : Rule(t)
  \/ \E t \in DOMAIN pc : ReturnBrowser(t)
  \/ \E t \in DOMAIN pc : LockRelease(t)

Spec == Init /\ [][Next]_vars

\* ---------------------------------- browser_lock called by concurrent threads
\* LockThreads threads each run, once,
\*     with crawler.browser_lock(b): n = counter[b.address]; counter[b.address] = n + 1
\* for a browser b of their choice.
LockUsers == 1 .. LockThreads

\* the addresses of the two browsers the threads choose from
LockAddrs == {port_area[1], port_area[1] + 1}

\* the two keys the threads choose from (cids of the demo)
LockKeys == {0, 1}

\* a thread calls browser_lock(b)
EnterBrowserLock(t) ==
  /\ pc[t] = "idle"
  /\ \E a \in LockAddrs : browser' = [browser EXCEPT ![t] = a]
  /\ pc' = [pc EXCEPT ![t] = "lock_check"]
  /\ UNCHANGED <<mainVars, browser_queue, execVars, lock, holding, lockVars,
                 harnessVars, otherVars>>

\* what the thread's call names: the key of key_lock, the address of browser_lock
Guarded(t) == IF key[t] # NoKey THEN key[t] ELSE browser[t]

\* the locked body reads the counter of its address or key
BodyRead(t) ==
  /\ pc[t] = "body"
  /\ tmp' = [tmp EXCEPT ![t] = counter[Guarded(t)]]
  /\ pc' = [pc EXCEPT ![t] = "body_write"]
  /\ UNCHANGED <<mainVars, browser_queue, execVars, browser, lock, holding, lockVars,
                 counter, bodies, otherVars>>

\* the locked body writes the incremented value back and ends
BodyWrite(t) ==
  /\ pc[t] = "body_write"
  /\ counter' = [counter EXCEPT ![Guarded(t)] = tmp[t] + 1]
  /\ bodies' = [bodies EXCEPT ![Guarded(t)] = @ + 1]
  /\ pc' = [pc EXCEPT ![t] = "unlock"]
  /\ UNCHANGED <<mainVars, browser_queue, execVars, browser, lock, holding, lockVars,
                 tmp, otherVars>>

\* the locked body raises instead: the exception leaves the with block
BodyRaise(t) ==
  /\ pc[t] = "body"
  /\ exc' = [exc EXCEPT ![t] = TRUE]
  /\ pc' = [pc EXCEPT ![t] = "unlock"]
  /\ UNCHANGED <<mainVars, browser_queue, execVars, browser, lock, holding, lockVars,
                 harnessVars, key, _lock_dict, _dict_lock, moreVars, toolVars>>

InitLock ==
  /\ pool_size = 1
  /\ mpc = "ready"
  /\ port = port_area[1]
  /\ available_ports = <<>>
  /\ probeLog = <<>>
  /\ port_list = <<>>
  /\ initIdx = 0
  /\ results = <<>>
  /\ results_max_cnt = 2
  /\ cnt = 0
  /\ task_list = <<>>
  /\ taskIdx = 0
  /\ yielded = {}
  /\ drained = {}
  /\ summary = -1
  /\ runs = 0
  /\ tasksUsed = 0
  /\ browser_queue = <<>>
  /\ workq = <<>>
  /\ outcomes = {}
  /\ releases = [t \in Tasks |-> 0]
  /\ pc = [t \in LockUsers |-> "idle"]
  /\ browser = [t \in LockUsers |-> 0]
  /\ lock = [t \in LockUsers |-> 0]
  /\ holding = [t \in LockUsers |-> 0]
  /\ BROWSER_LOCK = <<>>
  /\ locks = <<>>
  /\ counter = [a \in LockAddrs \cup LockKeys |-> 0]
  /\ tmp = [t \in LockUsers |-> 0]
  /\ bodies = [a \in LockAddrs \cup LockKeys |-> 0]
  /\ exc = [t \in LockUsers |-> FALSE]
  /\ key = [t \in LockUsers |-> NoKey]
  /\ _lock_dict = <<>>
  /\ _dict_lock = 0
  /\ stray = 0
  /\ dpc = "off"
  /\ cid = 0
  /\ cr_list = <<>>
  /\ submitted = 0
  /\ DownloadOff
  /\ UpsertOff
  /\ BuilderOff

NextLock ==
  \/ \E t \in LockUsers : EnterBrowserLock(t)
  \/ \E t \in LockUsers : LockCheck(t)
  \/ \E t \in LockUsers : LockInsert(t)
  \/ \E t \in LockUsers : LockRead(t)
  \/ \E t \in LockUsers : LockAcquire(t)
  \/ \E t \in LockUsers : BodyRead(t)
  \/ \E t \in LockUsers : BodyWrite(t)
  \/ \E t \in LockUsers : BodyRaise(t)
  \/ \E t \in LockUsers : LockRelease(t)

SpecLock == InitLock /\ [][NextLock]_vars

\* ------------------- browser_lock and key_lock called by concurrent threads
\* the threads of the scenario above each run, once, the same body under
\* browser_lock(b) or under key_lock(k), for a browser b or a key k of their choice
\* a thread calls key_lock(k)
EnterKeyLock(t) ==
  /\ pc[t] = "idle"
  /\ \E k \in LockKeys : key' = [key EXCEPT ![t] = k]
  /\ pc' = [pc EXCEPT ![t] = "dict_acquire"]
  /\ UNCHANGED <<mainVars, browser_queue, execVars, browser, lock, holding, lockVars,
                 harnessVars, exc, _lock_dict, _dict_lock, moreVars, toolVars>>

NextKey ==
  \/ \E t \in LockUsers : EnterBrowserLock(t)
  \/ \E t \in LockUsers : LockCheck(t)
  \/ \E t \in LockUsers : LockInsert(t)
  \/ \E t \in LockUsers : LockRead(t)
  \/ \E t \in LockUsers : EnterKeyLock(t)
  \/ \E t \in LockUsers : DictAcquire(t)
  \/ \E t \in LockUsers : KeyCheck(t)
  \/ \E t \in LockUsers : KeyInsert(t)
  \/ \E t \in LockUsers : DictRelease(t)
  \/ \E t \in LockUsers : KeyRead(t)
  \/ \E t \in LockUsers : LockAcquire(t)
  \/ \E t \in LockUsers : BodyRead(t)
  \/ \E t \in LockUsers : BodyWrite(t)
  \/ \E t \in LockUsers : BodyRaise(t)
  \/ \E t \in LockUsers : LockRelease(t)

SpecKey == InitLock /\ [][NextKey]_vars

\* ================================================================ claims
\* __init__ has completed: the pool exists and crawl_many can be called
Constructed == mpc \in {"ready", "loop", "barrier", "returned"}

\* the threads that have a browser checked out (acquired, not yet returned)
Holders == {t \in DOMAIN holding : holding[t] # 0}

\* the number of browsers initialize_browser put in the pool
PoolN == Len(port_list)

\* the thread is inside the body run under browser_lock
InBody(t) == pc[t] \in {"body", "body_write", "return"}

\* C1 (pool exclusivity): no browser is checked out by two threads at once:
\* acquire_browser never hands out a browser that an earlier acquire_browser
\* handed out and that has not been passed to return_browser since.
C1_PoolExclusivity ==
  \A t1 \in Holders : \A t2 \in Holders : t1 # t2 => holding[t1] # holding[t2]

\* two threads hold browsers at the same moment, after an earlier task has
\* already returned its browser, in a pool of pool_size browsers
C1_Witness ==
  /\ PoolN = pool_size
  /\ \E t1 \in Holders : \E t2 \in Holders : t1 # t2
  /\ \E t3 \in DOMAIN releases : releases[t3] = 1

\* C2 (conservation): once the pool is built, the browsers in browser_queue plus
\* the browsers checked out are exactly the N browsers the pool was built with
\* (N = len(port_list)): the counts add up to N, no browser is queued twice,
\* and no browser is both queued and checked out.
C2_Conservation ==
  Constructed =>
    /\ Len(browser_queue) + Cardinality(Holders) = PoolN
    /\ Cardinality(Range(browser_queue)) = Len(browser_queue)
    /\ \A t \in Holders : holding[t] \notin Range(browser_queue)
    /\ Range(browser_queue) \cup {holding[t] : t \in Holders} = Range(port_list)

\* one browser is available and another is checked out, after a release
C2_Witness ==
  /\ PoolN = pool_size
  /\ Len(browser_queue) = 1
  /\ Cardinality(Holders) = 1
  /\ \E t \in DOMAIN releases : releases[t] = 1

\* C3 (release on failure): a task whose rule has ended, normally or by a raised
\* Exception, returns its browser exactly once; when crawl_many returns, all N
\* browsers are available again; no browser has two outstanding checkouts.
C3_ReleaseOnFailure ==
  /\ \A t \in DOMAIN releases :
       /\ releases[t] <= 1
       /\ (t \in DOMAIN pc /\ pc[t] \in {"unlock", "finished"}) => releases[t] = 1
  /\ mpc = "returned" => (Len(browser_queue) = PoolN /\ Holders = {})
  /\ \A t1 \in Holders : \A t2 \in Holders : holding[t1] = holding[t2] => t1 = t2

\* crawl_many has returned after a run in which a rule raised and another did
\* not, and the pool is full again
C3_Witness ==
  /\ mpc = "returned"
  /\ PoolN = pool_size
  /\ Len(browser_queue) = pool_size
  /\ outcomes = {"success", "failed"}
  /\ \A t \in Range(task_list) : releases[t] = 1

\* C4 (completed count): crawl_many reports a count equal to the length of its
\* task list.
C4_CompletedCount == mpc = "returned" => summary = Len(task_list)

\* C5 (final drain): when crawl_many returns, every submitted task has been
\* drained and self.results is empty.
C5_FinalDrain ==
  mpc = "returned" => (results = <<>> /\ Range(task_list) \subseteq drained)

\* C6 (barrier bound): len(self.results) never exceeds 2 * pool_size.
C6_BarrierBound == Constructed => Len(results) <= 2 * pool_size

\* the accumulator is full (the barrier is running) with more tasks to come
C6_Witness ==
  /\ mpc = "barrier"
  /\ Len(results) = 2 * pool_size
  /\ taskIdx < Len(task_list)

\* C7 (mutual exclusion of the address lock): two threads are never inside the
\* body locked for the same address at the same moment, and an address whose
\* threads have all left browser_lock has counted every body (no lost update).
C7_LockMutex ==
  /\ \A t1 \in DOMAIN pc : \A t2 \in DOMAIN pc :
       (t1 # t2 /\ InBody(t1) /\ InBody(t2)) => browser[t1] # browser[t2]
  /\ \A a \in DOMAIN counter :
       (\A t \in DOMAIN pc : browser[t] # a) => counter[a] = bodies[a]

\* C8 (lock-registry insertion): one Lock object is created per address, so
\* every thread that has read the registry uses the object registered for its
\* address and no entry is ever replaced.
C8_OneLockPerAddress ==
  /\ Len(locks) = Cardinality(DOMAIN BROWSER_LOCK)
  /\ \A t \in DOMAIN lock : lock[t] # 0 => lock[t] = BROWSER_LOCK[browser[t]]

\* C9 (insufficient ports): get_port_list never returns a list shorter than
\* pool_size (it fails with InsufficientPortsError instead).
C9_NoShortPortList ==
  mpc \notin {"scan", "scan_done"} => Len(port_list) >= pool_size

\* the k lowest elements of a set of ports
RECURSIVE Lowest(_, _)
Lowest(S, k) ==
  IF k = 0 \/ S = {} THEN {}
  ELSE LET m == CHOOSE x \in S : \A y \in S : x <= y
       IN {m} \cup Lowest(S \ {m}, k - 1)

\* C10 (port scan result): when the scan found at least pool_size bindable
\* ports, get_port_list returns exactly pool_size distinct ports in ascending
\* order, the lowest ones found bindable, probing upwards from the start of the
\* range and no port above the last one returned.
C10_PortScanResult ==
  (mpc \notin {"scan", "scan_done"} /\ Cardinality(Bindable(probeLog)) >= pool_size) =>
    /\ Len(port_list) = pool_size
    /\ \A i \in 1 .. Len(port_list) : \A j \in 1 .. Len(port_list) :
         i < j => port_list[i] < port_list[j]
    /\ Range(port_list) = Lowest(Bindable(probeLog), pool_size)
    /\ Range(port_list) \subseteq Ports
    /\ \A i \in 1 .. Len(probeLog) :
         /\ probeLog[i].port = port_area[1] + i - 1
         /\ probeLog[i].port <= port_list[pool_size]

\* the scan skipped a port that was not bindable and still found pool_size ports
C10_Witness ==
  /\ mpc = "init"
  /\ Len(port_list) = pool_size
  /\ \E i \in 1 .. Len(probeLog) : ~probeLog[i].ok

\* crawl_many has been called on the crawler
Dispatching == mpc \in {"loop", "barrier", "returned"}

\* C11 (startup errors are fatal): a crawler on which crawl_many runs has
\* exactly pool_size browsers, in the pool or checked out; after too few ports
\* or a failed browser construction no task is ever dispatched.
C11_StartupFatal ==
  /\ Dispatching => Len(browser_queue) + Cardinality(Holders) = pool_size
  /\ mpc = "aborted" => \A t \in DOMAIN pc : pc[t] = "none"

\* the positions of crawl_one between acquire_browser and return_browser
BeforeReturn ==
  {"lock_check", "lock_insert", "lock_read", "lock_acquire", "body", "return"}

\* C12 (task-error isolation): after a rule has raised, the error stays inside
\* crawl_one: every browser that is checked out belongs to a thread that is
\* still on its way to return_browser (so none is lost to the other tasks), no
\* thread has ended without returning its browser, every future that a drain
\* waits for ends as finished, and crawl_many returns with all its threads ended.
C12_ErrorIsolation ==
  "failed" \in outcomes =>
    /\ \A t \in Holders : pc[t] \in BeforeReturn
    /\ \A t \in DOMAIN pc : pc[t] \in {"unlock", "finished"} => releases[t] = 1
    /\ \A t \in drained : FutureDone(t)
    /\ mpc = "returned" => \A i \in 1 .. Len(task_list) : FutureDone(task_list[i])

\* with a single browser, a task is running its rule after another task's rule
\* has raised and that task has ended
C12_Witness ==
  /\ Len(port_list) = 1
  /\ outcomes = {"failed"}
  /\ \E t1 \in DOMAIN pc : \E t2 \in DOMAIN pc :
       pc[t1] = "finished" /\ pc[t2] = "body"

\* the positions of a thread inside a `with lock:` block
InWith == {"body", "body_write", "return", "unlock"}

\* C13 (lock release on every exit path): a Lock object of browser_lock or
\* key_lock is owned only by a thread that is inside its with block; once the
\* body has ended, normally or by raising, and the thread has left, the Lock is
\* free again for the next caller that names the same address or key.
C13_ReleaseOnEveryExit ==
  \A i \in 1 .. Len(locks) :
    locks[i] # 0 => pc[locks[i]] \in InWith /\ lock[locks[i]] = i

\* a thread runs the body under the one Lock of its address or key after
\* another thread's body for the same address or key raised and that thread left
C13_Witness ==
  /\ Len(locks) = 1
  /\ \E t1 \in DOMAIN pc : \E t2 \in DOMAIN pc :
       /\ pc[t1] = "finished" /\ exc[t1]
       /\ pc[t2] = "body_write"
       /\ Guarded(t1) = Guarded(t2)

\* ------------------------------------- the dispatcher under fair scheduling
\* The state __init__ leaves behind: the scan found the first n ports of the
\* range bindable, either pool_size of them or fewer with the range exhausted,
\* and a browser was started on each.
InitReady ==
  /\ pool_size \in 1 .. MaxPool
  /\ mpc = "ready"
  /\ \E n \in 0 .. pool_size :
       /\ n = pool_size \/ n <= PortSpan
       /\ n = pool_size => n <= PortSpan
       /\ port_list = [i \in 1 .. n |-> port_area[1] + i - 1]
       /\ probeLog = [i \in 1 .. (IF n = pool_size THEN n ELSE PortSpan) |->
                        [port |-> port_area[1] + i - 1, ok |-> i <= n]]
       /\ port = IF n = pool_size THEN port_area[1] + n - 1 ELSE port_area[2]
       /\ initIdx = n
  /\ available_ports = port_list
  /\ browser_queue = port_list
  /\ results = <<>>
  /\ results_max_cnt = pool_size * 2
  /\ cnt = 0
  /\ task_list = <<>>
  /\ taskIdx = 0
  /\ yielded = {}
  /\ drained = {}
  /\ summary = -1
  /\ runs = 0
  /\ tasksUsed = 0
  /\ workq = <<>>
  /\ outcomes = {}
  /\ releases = [t \in Tasks |-> 0]
  /\ pc = [t \in Tasks |-> "none"]
  /\ browser = [t \in Tasks |-> 0]
  /\ lock = [t \in Tasks |-> 0]
  /\ holding = [t \in Tasks |-> 0]
  /\ BROWSER_LOCK = <<>>
  /\ locks = <<>>
  /\ counter = <<>>
  /\ tmp = <<>>
  /\ bodies = <<>>
  /\ exc = [t \in Tasks |-> FALSE]
  /\ key = [t \in Tasks |-> NoKey]
  /\ _lock_dict = <<>>
  /\ _dict_lock = 0
  /\ stray = 0
  /\ dpc = "off"
  /\ cid = 0
  /\ cr_list = <<>>
  /\ submitted = 0
  /\ DownloadOff
  /\ UpsertOff
  /\ BuilderOff

\* the one crawl_many call of the program's main block:
\* Crawler(2, "normal").crawl_many(tasks)
CallOnce == runs = 0 /\ CallCrawlMany

\* the steps of crawl_many and of the threads of its executor
NextDispatch ==
  \/ CallOnce
  \/ Submit
  \/ DrainOne
  \/ BarrierClear
  \/ CrawlManyReturn
  \/ \E t \in DOMAIN pc : Pickup(t)
  \/ \E t \in DOMAIN pc : AcquireCheck(t)
  \/ \E t \in DOMAIN pc : AcquireGet(t)
  \/ \E t \in DOMAIN pc : LockCheck(t)
  \/ \E t \in DOMAIN pc : LockInsert(t)
  \/ \E t \in DOMAIN pc : LockRead(t)
  \/ \E t \in DOMAIN pc : LockAcquire(t)
  \/ \E t \in DOMAIN pc : Rule(t)
  \/ \E t \in DOMAIN pc : ReturnBrowser(t)
  \/ \E t \in DOMAIN pc : LockRelease(t)

\* The threads of the executor and the main thread are scheduled fairly: as long
\* as some step of the program can be taken, one is taken eventually.  A rule
\* call ends (Rule is a step that can always be taken).
FairSpec == InitReady /\ [][NextDispatch]_vars /\ WF_vars(NextDispatch)

\* the thread is blocked in acquire_browser
Acquiring(t) == pc[t] \in {"acq_check", "acq_get"}

\* C14 (no deadlock, progress): a thread waits in acquire_browser only while
\* crawl_many is running, a thread that is about to return its browser is never
\* blocked by the threads that wait, and with at least one browser in the pool
\* every crawl_many call returns, in or out of a barrier wait, with every one of
\* its threads ended after it obtained a browser and returned it.
C14_Progress ==
  /\ [](\A t \in Tasks : Acquiring(t) => mpc \in {"loop", "barrier"})
  /\ [](\A t \in Tasks : pc[t] = "return" => QueueCanPut(browser_queue, pool_size))
  /\ (Len(port_list) >= 1 /\ mpc \in {"loop", "barrier"}) ~>
       (mpc = "returned" /\ \A i \in 1 .. Len(task_list) :
                               pc[task_list[i]] = "finished" /\ releases[task_list[i]] = 1)

\* a thread waits in acquire_browser while the only browser is checked out
C14_Witness ==
  /\ Len(port_list) >= 1
  /\ browser_queue = <<>>
  /\ \E t \in DOMAIN pc : pc[t] = "acq_check"

\* C15 (barrier ordering): crawl_many is in a barrier exactly when self.results
\* holds 2 * pool_size futures; while it is, no task is submitted; it leaves the
\* barrier only with every future of self.results finished, and clears
\* self.results as it does; so every submitted task that is no longer in
\* self.results has finished before the tasks submitted later exist.
C15_BarrierOrdering ==
  /\ [](Constructed => (mpc = "barrier" <=> Len(results) = 2 * pool_size))
  /\ [][mpc = "barrier" =>
          /\ taskIdx' = taskIdx
          /\ workq' = workq \/ Len(workq') < Len(workq)
          /\ \A t \in Tasks : pc[t] = "none" => pc'[t] = "none"]_vars
  /\ [][(mpc = "barrier" /\ mpc' # "barrier") =>
          /\ \A t \in Range(results) : pc[t] = "finished"
          /\ results' = <<>>
          /\ mpc' = "loop"]_vars
  /\ [](\A t \in Tasks :
          (pc[t] # "none" /\ t \notin Range(results)) => pc[t] = "finished")

\* a task has been submitted after a barrier that drained two earlier tasks
C15_Witness ==
  /\ mpc = "loop"
  /\ Cardinality(drained) = 2 * pool_size
  /\ Len(results) = 1
  /\ pc[results[1]] \notin {"none", "finished"}

\* C16 (per-task state machine): a task's browser is checked out only between
\* acquire_browser and return_browser, the address lock is owned only by a
\* thread that has acquired its browser, rule runs only while browser and lock
\* are both held, the browser is returned once, a task is drained only after
\* its thread has returned the browser and ended, and every task dispatched by
\* crawl_many has reached Drained when crawl_many returns.
C16_TaskStateMachine ==
  \A t \in Tasks :
    /\ holding[t] # 0 => pc[t] \in BeforeReturn
    /\ (\E i \in 1 .. Len(locks) : locks[i] = t) => pc[t] \in {"body", "return", "unlock"}
    /\ pc[t] = "body" => holding[t] # 0 /\ lock[t] # 0 /\ locks[lock[t]] = t
    /\ releases[t] <= 1
    /\ t \in drained => pc[t] = "finished" /\ releases[t] = 1
    /\ (mpc = "returned" /\ pc[t] # "none") => t \in drained

\* C17 (serialization within the dispatcher): among the crawl_one threads of
\* crawl_many, two threads are never inside the locked body of one browser at
\* once (so two rule calls on one browser never overlap, and a thread that got
\* a just-returned browser enters the body only after the previous holder has
\* left it), and BROWSER_LOCK has received exactly one Lock per address.
C17_DispatcherSerialized ==
  /\ \A t1 \in Tasks : \A t2 \in Tasks :
       (t1 # t2 /\ pc[t1] \in InWith /\ pc[t2] \in InWith) => browser[t1] # browser[t2]
  /\ Len(locks) = Cardinality(DOMAIN BROWSER_LOCK)

\* a thread has acquired a browser that was just returned and waits for the
\* address lock, which the previous holder has not left yet
C17_Witness ==
  \E t1 \in DOMAIN pc : \E t2 \in DOMAIN pc :
    /\ pc[t1] = "unlock"
    /\ pc[t2] = "lock_acquire"
    /\ browser[t1] = browser[t2]
    /\ locks[lock[t2]] = t1

\* ------------------------------- a return_browser call outside crawl_one
\* Before or after its crawl_many call the owner of the crawler calls
\* return_browser(b) for a browser b of the pool that nobody has checked out.
StrayCall ==
  /\ mpc \in {"ready", "returned"}
  /\ \E b \in Range(port_list) : stray' = b
  /\ mpc' = "stray_put"
  /\ UNCHANGED <<pool_size, scanVars, port_list, initIdx, results_max_cnt, loopVars,
                 browser_queue, execVars, workerVars, lockVars, harnessVars,
                 keyVars, demoVars, toolVars>>

\* self.browser_queue.put(QueueMessage(b, now)) of that call, and its return
StrayPut ==
  /\ mpc = "stray_put"
  /\ QueueCanPut(browser_queue, pool_size)
  /\ browser_queue' = Append(browser_queue, stray)
  /\ stray' = 0
  /\ mpc' = "ready"
  /\ UNCHANGED <<pool_size, scanVars, port_list, initIdx, results_max_cnt, loopVars,
                 execVars, workerVars, lockVars, harnessVars, keyVars, demoVars, toolVars>>

NextStray ==
  \/ NextDispatch
  \/ StrayCall
  \/ StrayPut

\* a constructed crawler, its crawl_many call and the stray calls before or after it
SpecStray == InitReady /\ [][NextStray]_vars

\* C18 (release outside the convention): browser_queue never holds more than
\* pool_size entries, and a return_browser call for a browser that is not
\* checked out, made while the queue holds pool_size browsers, stays blocked
\* with the queue unchanged.
C18_StrayReturnBlocks ==
  /\ [](Len(browser_queue) <= pool_size)
  /\ [][(mpc = "stray_put" /\ Len(browser_queue) = pool_size) =>
          (mpc' = "stray_put" /\ browser_queue' = browser_queue)]_vars

\* the stray call is in progress for a browser that is in the full queue
C18_Witness ==
  /\ mpc = "stray_put"
  /\ Len(browser_queue) = pool_size
  /\ stray \in Range(browser_queue)

\* the thread is inside the body run under key_lock
InKeyBody(t) == key[t] # NoKey /\ pc[t] \in {"body", "body_write"}

\* C19 (demo lock registry): an entry of _lock_dict, once stored, is never
\* replaced or removed, so one Lock object is stored per key; the test and the
\* insertion are made by the owner of _dict_lock only; and two threads are
\* never inside bodies run under key_lock with the same key at once.
C19_KeyLockRegistry ==
  /\ [][\A k \in DOMAIN _lock_dict :
          k \in DOMAIN _lock_dict' /\ _lock_dict'[k] = _lock_dict[k]]_vars
  /\ [](\A t \in DOMAIN pc :
          pc[t] \in {"key_check", "key_insert", "dict_release"} => _dict_lock = t)
  /\ [](\A t1 \in DOMAIN pc : \A t2 \in DOMAIN pc :
          (t1 # t2 /\ InKeyBody(t1) /\ InKeyBody(t2)) => key[t1] # key[t2])

\* two threads are inside bodies run under key_lock with different keys
C19_Witness ==
  \E t1 \in DOMAIN pc : \E t2 \in DOMAIN pc :
    InKeyBody(t1) /\ InKeyBody(t2) /\ key[t1] # key[t2]

\* ----------------- the dispatcher of src/demos/drissionpage_demo/main.py
\* The main thread starts MAX_WORKERS browsers and puts them in cr_list, then
\* submits run(u, cid, cr) once per url, each time with a browser it took from
\* cr_list; run loads the page under key_lock(cid) and puts the browser back.
\* The run calls are named 1, 2, ... in submission order and their number
\* (FOR_NUM * len(urls) in the source) is MaxTasks here.

\* one iteration of `for cid in range(MAX_WORKERS)`: Chromium(co) starts a
\* browser, which is put in cr_list, or raises
DemoStartBrowser ==
  /\ dpc = "setup"
  /\ cid < MAX_WORKERS
  /\ \E started \in BOOLEAN :
       IF started
         THEN /\ QueueCanPut(cr_list, MAX_WORKERS)
              /\ cr_list' = Append(cr_list, cid)
              /\ cid' = cid + 1
              /\ dpc' = IF cid + 1 = MAX_WORKERS THEN "submit" ELSE "setup"
         ELSE /\ dpc' = "crashed"
              /\ UNCHANGED <<cid, cr_list>>
  /\ UNCHANGED <<mainVars, browser_queue, execVars, workerVars, lockVars, harnessVars,
                 keyVars, strayVars, submitted, toolVars>>

\* the while loop found cr_list non-empty: cr_dict = cr_list.get();
\* tasks.append(executor.submit(run, u, cid, cr)) (only this thread takes from
\* cr_list, so the get that follows the empty() test never blocks)
DemoSubmit ==
  /\ dpc = "submit"
  /\ submitted < MaxTasks
  /\ ~QueueEmpty(cr_list)
  /\ LET got == QueueGet(cr_list)
         t == submitted + 1
     IN /\ cr_list' = got.rest
        /\ cid' = got.item
        /\ key' = [key EXCEPT ![t] = got.item]
        /\ pc' = [pc EXCEPT ![t] = "queued"]
        /\ workq' = Append(workq, t)
        /\ submitted' = t
        /\ dpc' = IF t = MaxTasks THEN "shutdown" ELSE "submit"
  /\ UNCHANGED <<mainVars, browser_queue, outcomes, releases, browser, lock, holding,
                 lockVars, harnessVars, exc, _lock_dict, _dict_lock, strayVars, toolVars>>

\* an idle thread of the executor (max_workers = MAX_WORKERS) takes the oldest
\* queued call and enters run: with key_lock(cid)
DemoPickup(t) ==
  /\ pc[t] = "queued"
  /\ workq # <<>> /\ Head(workq) = t
  /\ Cardinality(Running) < MAX_WORKERS
  /\ workq' = Tail(workq)
  /\ pc' = [pc EXCEPT ![t] = "dict_acquire"]
  /\ UNCHANGED <<mainVars, browser_queue, outcomes, releases, browser, lock, holding,
                 lockVars, harnessVars, keyVars, moreVars, toolVars>>

\* the body of run up to the put: tab.get(url) and the reads around it end
\* normally or raise; an exception leaves the with block and run
RunLoad(t) ==
  /\ pc[t] = "body"
  /\ \E raised \in BOOLEAN :
       /\ exc' = [exc EXCEPT ![t] = raised]
       /\ pc' = [pc EXCEPT ![t] = IF raised THEN "unlock" ELSE "run_put"]
  /\ UNCHANGED <<mainVars, browser_queue, execVars, browser, lock, holding, lockVars,
                 harnessVars, key, _lock_dict, _dict_lock, moreVars, toolVars>>

\* cr_list.put({cid: cr}); the return that follows leaves the with block
RunPut(t) ==
  /\ pc[t] = "run_put"
  /\ QueueCanPut(cr_list, MAX_WORKERS)
  /\ cr_list' = Append(cr_list, key[t])
  /\ releases' = [releases EXCEPT ![t] = @ + 1]
  /\ pc' = [pc EXCEPT ![t] = "unlock"]
  /\ UNCHANGED <<mainVars, browser_queue, workq, outcomes, browser, lock, holding,
                 lockVars, harnessVars, keyVars, strayVars, dpc, cid, submitted, toolVars>>

\* the end of `with ThreadPoolExecutor(...)`: shutdown waits for every call
DemoShutdown ==
  /\ dpc = "shutdown"
  /\ \A t \in 1 .. submitted : pc[t] = "finished"
  /\ dpc' = "collect"
  /\ UNCHANGED <<mainVars, browser_queue, execVars, workerVars, lockVars, harnessVars,
                 keyVars, strayVars, cid, cr_list, submitted, toolVars>>

\* for task in as_completed(tasks): task.result() re-raises the exception of
\* a run that raised, which ends the program; otherwise the results are printed
DemoCollect ==
  /\ dpc = "collect"
  /\ dpc' = IF \E t \in 1 .. submitted : exc[t] THEN "crashed" ELSE "quit"
  /\ UNCHANGED <<mainVars, browser_queue, execVars, workerVars, lockVars, harnessVars,
                 keyVars, strayVars, cid, cr_list, submitted, toolVars>>

\* while not cr_list.empty(): cr_dict = cr_list.get(); cr.quit()
DemoQuit ==
  /\ dpc = "quit"
  /\ IF QueueEmpty(cr_list)
       THEN dpc' = "done" /\ UNCHANGED <<cid, cr_list>>
       ELSE LET got == QueueGet(cr_list)
            IN cr_list' = got.rest /\ cid' = got.item /\ dpc' = dpc
  /\ UNCHANGED <<mainVars, browser_queue, execVars, workerVars, lockVars, harnessVars,
                 keyVars, strayVars, submitted, toolVars>>

\* the module has been imported and the main block starts
InitDemo ==
  /\ pool_size = 1
  /\ mpc = "ready"
  /\ port = port_area[1]
  /\ available_ports = <<>>
  /\ probeLog = <<>>
  /\ port_list = <<>>
  /\ initIdx = 0
  /\ results = <<>>
  /\ results_max_cnt = 2
  /\ cnt = 0
  /\ task_list = <<>>
  /\ taskIdx = 0
  /\ yielded = {}
  /\ drained = {}
  /\ summary = -1
  /\ runs = 0
  /\ tasksUsed = 0
  /\ browser_queue = <<>>
  /\ workq = <<>>
  /\ outcomes = {}
  /\ releases = [t \in Tasks |-> 0]
  /\ pc = [t \in Tasks |-> "none"]
  /\ browser = [t \in Tasks |-> 0]
  /\ lock = [t \in Tasks |-> 0]
  /\ holding = [t \in Tasks |-> 0]
  /\ BROWSER_LOCK = <<>>
  /\ locks = <<>>
  /\ counter = <<>>
  /\ tmp = <<>>
  /\ bodies = <<>>
  /\ exc = [t \in Tasks |-> FALSE]
  /\ key = [t \in Tasks |-> NoKey]
  /\ _lock_dict = <<>>
  /\ _dict_lock = 0
  /\ stray = 0
  /\ dpc = "setup"
  /\ cid = 0
  /\ cr_list = <<>>
  /\ submitted = 0
  /\ DownloadOff
  /\ UpsertOff
  /\ BuilderOff

NextDemo ==
  \/ DemoStartBrowser
  \/ DemoSubmit
  \/ DemoShutdown
  \/ DemoCollect
  \/ DemoQuit
  \/ \E t \in DOMAIN pc : DemoPickup(t)
  \/ \E t \in DOMAIN pc : DictAcquire(t)
  \/ \E t \in DOMAIN pc : KeyCheck(t)
  \/ \E t \in DOMAIN pc : KeyInsert(t)
  \/ \E t \in DOMAIN pc : DictRelease(t)
  \/ \E t \in DOMAIN pc : KeyRead(t)
  \/ \E t \in DOMAIN pc : LockAcquire(t)
  \/ \E t \in DOMAIN pc : RunLoad(t)
  \/ \E t \in DOMAIN pc : RunPut(t)
  \/ \E t \in DOMAIN pc : LockRelease(t)

SpecDemo == InitDemo /\ [][NextDemo]_vars

\* the run calls that have their browser: submitted, not ended, put not done
DemoHolders == {t \in DOMAIN pc : pc[t] \notin {"none", "finished"} /\ releases[t] = 0}

\* C20 (demo dispatcher resource return): while the main loop dispatches, the
\* browsers in cr_list plus those held by unfinished run calls number
\* MAX_WORKERS, no two unfinished run calls hold the same browser, and a run
\* call that has ended, normally or by an exception of the page load, has put
\* its browser back exactly once.
C20_DemoResourceReturn ==
  dpc \in {"submit", "shutdown", "collect"} =>
    /\ Len(cr_list) + Cardinality(DemoHolders) = MAX_WORKERS
    /\ \A t1 \in DemoHolders : \A t2 \in DemoHolders : t1 # t2 => key[t1] # key[t2]
    /\ \A t \in DOMAIN pc : pc[t] = "finished" => releases[t] = 1

(***************************************************************************)
(* Crawler.save_data and Crawler.download_img of                           *)
(* src/cases/drissionpage_case/main.py: the download loop and its          *)
(* recursive retry.  Every download_img call is one frame of the stack;    *)
(* the interpreter refuses a call that would nest deeper than its          *)
(* recursion limit and raises RecursionError, which is an Exception.       *)
(***************************************************************************)

\* rows of dl_imgs one save_data call handles at most
MaxImgs == 2

\* recursion limit of the interpreter, counted in download_img frames
MaxDepth == 3

\* the DPCrawler, the lock harness, key_lock and the demo are not part of the
\* scenario: one crawl_one call is inside rule, holding its browser
CrawlerOff ==
  /\ pool_size = 1
  /\ mpc = "off"
  /\ port = port_area[1]
  /\ available_ports = <<>>
  /\ probeLog = <<>>
  /\ port_list = <<>>
  /\ initIdx = 0
  /\ results = <<>>
  /\ results_max_cnt = 0
  /\ cnt = 0
  /\ task_list = <<>>
  /\ taskIdx = 0
  /\ yielded = {}
  /\ drained = {}
  /\ summary = -1
  /\ runs = 0
  /\ tasksUsed = 0
  /\ browser_queue = <<>>
  /\ workq = <<>>
  /\ outcomes = {}
  /\ releases = [t \in Tasks |-> 0]
  /\ pc = [t \in Tasks |-> "none"]
  /\ browser = [t \in Tasks |-> 0]
  /\ lock = [t \in Tasks |-> 0]
  /\ holding = [t \in Tasks |-> 0]
  /\ BROWSER_LOCK = <<>>
  /\ locks = <<>>
  /\ counter = <<>>
  /\ tmp = <<>>
  /\ bodies = <<>>
  /\ exc = [t \in Tasks |-> FALSE]
  /\ key = [t \in Tasks |-> NoKey]
  /\ _lock_dict = <<>>
  /\ _dict_lock = 0
  /\ stray = 0
  /\ dpc = "off"
  /\ cid = 0
  /\ cr_list = <<>>
  /\ submitted = 0

crawlerVars == <<mainVars, browser_queue, execVars, workerVars, lockVars, harnessVars,
                 keyVars, moreVars>>

\* what one attempt can meet: status 200 and the file written, another status,
\* or an exception raised inside the try block
Outcomes == {"ok", "non200", "exception"}

AfterAttemptGiveUp(outcome) ==
  CASE outcome = "ok" -> "return"
    [] outcome = "non200" -> "return"
    [] OTHER -> "retry_handler"

\* where download_img goes after an attempt: it returns after status 200, calls
\* itself inside the try block after another status, and calls itself in the
\* except handler after an exception
AfterAttempt(outcome) ==
  CASE outcome = "ok" -> "return"
    [] outcome = "non200" -> "retry_try"
    [] OTHER -> "retry_handler"

Top == stack[Len(stack)]

Pop == SubSeq(stack, 1, Len(stack) - 1)

\* the frame on top waits at `at` for the call it makes
Nest(at) == Append([stack EXCEPT ![Len(stack)] = at], "attempt")

\* the with block of save_data starts; the loop is at the first row
SaveDataLoop ==
  /\ dl = "loop"
  /\ img = 0
  /\ download' = [download EXCEPT !.img = 1, !.dl = "call"]
  /\ UNCHANGED <<crawlerVars, upsert, helper>>

\* self.download_img(row[5], row[3]) of save_data
CallDownloadImg ==
  /\ dl = "call"
  /\ download' = [download EXCEPT !.stack = <<"attempt">>, !.signal = "none",
                                   !.dl = "running"]
  /\ UNCHANGED <<crawlerVars, upsert, helper>>

\* one pass through the try block of the innermost frame
Attempt(outcome) ==
  /\ dl = "running"
  /\ stack # <<>>
  /\ Top = "attempt"
  /\ signal = "none"
  /\ LET after == AfterAttempt(outcome)
         tried == [download EXCEPT !.attempts = attempts + 1]
     IN download' =
          CASE after = "return" ->
                 [tried EXCEPT !.wrote = IF outcome = "ok" THEN wrote \cup {img} ELSE wrote,
                               !.stack = Pop,
                               !.signal = "ret"]
            [] Len(stack) < MaxDepth ->
                 [tried EXCEPT !.stack = Nest(IF after = "retry_try" THEN "wait_try"
                                                                     ELSE "wait_handler")]
            [] OTHER ->
                 \* the nested call raises RecursionError: raised in the try block
                 \* it is caught and the call of the handler raises it again
                 [tried EXCEPT !.stack = Pop, !.signal = "exc", !.overflow = TRUE]
  /\ UNCHANGED <<crawlerVars, upsert, helper>>

\* the nested call has ended and control is back in the frame that made it
Unwind ==
  /\ dl = "running"
  /\ stack # <<>>
  /\ signal # "none"
  /\ download' =
       CASE signal = "ret" ->
              [download EXCEPT !.stack = Pop]
         [] Top = "wait_try" ->
              \* except Exception catches what the call in the try block raised
              [download EXCEPT !.stack = Nest("wait_handler"), !.signal = "none"]
         [] OTHER ->
              \* nothing catches what the call in the handler raised
              [download EXCEPT !.stack = Pop]
  /\ UNCHANGED <<crawlerVars, upsert, helper>>

\* the outermost download_img has ended: the loop goes on to the next row, or
\* the exception leaves save_data
DownloadImgEnds ==
  /\ dl = "running"
  /\ stack = <<>>
  /\ signal # "none"
  /\ download' =
       IF signal = "exc"
         THEN [download EXCEPT !.dl = "raised", !.signal = "none"]
         ELSE IF img < dl_imgs
                THEN [download EXCEPT !.dl = "call", !.img = img + 1, !.signal = "none"]
                ELSE [download EXCEPT !.dl = "returned", !.signal = "none"]
  /\ UNCHANGED <<crawlerVars, upsert, helper>>

\* rule has ended inside crawl_one, which goes on to return the browser
RuleEnds ==
  /\ dl \in {"returned", "raised"}
  /\ download' = [download EXCEPT !.dl = AfterRule(dl = "raised")]
  /\ UNCHANGED <<crawlerVars, upsert, helper>>

InitDownload ==
  /\ CrawlerOff
  /\ UpsertOff
  /\ BuilderOff
  /\ \E n \in 1 .. MaxImgs :
       download = [dl |-> "loop", dl_imgs |-> n, img |-> 0, stack |-> <<>>,
                   signal |-> "none", wrote |-> {}, attempts |-> 0, overflow |-> FALSE]

NextDownload ==
  \/ SaveDataLoop
  \/ CallDownloadImg
  \/ \E outcome \in Outcomes : Attempt(outcome)
  \/ Unwind
  \/ DownloadImgEnds
  \/ RuleEnds

SpecDownload == InitDownload /\ [][NextDownload]_vars

\* C21 as stated: when the task completes, every row of dl_imgs has been
\* written by an attempt that received status 200: against a source that
\* fails on every attempt download_img never ends and the task never completes
C21_NeverEndsWithoutSuccess == dl = "return" => wrote = 1 .. dl_imgs

\* C21: download_img returns only after an attempt received status 200 and
\* wrote the file, and it ends in no other way than by the RecursionError
\* of a call nested deeper than the recursion limit; it counts no attempts
C21_DownloadRetry ==
  /\ dl \in {"running", "call", "returned", "raised", "return"} /\ img > 0
       => (1 .. (img - 1)) \subseteq wrote
  /\ dl = "returned" => wrote = 1 .. dl_imgs
  /\ (dl = "running" /\ stack = <<>> /\ signal = "ret") => img \in wrote
  /\ (signal = "exc" \/ dl = "raised") => overflow
  /\ Len(stack) <= MaxDepth

\* a download that failed on every attempt, ended, and let the task go on to
\* return the browser
C21_Witness == dl = "return" /\ wrote = {} /\ overflow /\ attempts >= MaxDepth

(***************************************************************************)
(* DBOperator.generate_upsert_sql and get_data_columns_list of             *)
(* src/tools/mysql.py.  A text is the sequence of its characters; a column *)
(* name is one character long, a row is named by its position in the       *)
(* argument and the value of its column c is the pair <<row, c>>.          *)
(***************************************************************************)

\* rows of the argument data at most
MaxRows == 3

\* batch_size at most
MaxBatch == 2

\* the column names, in sorted order
Cols == <<"a", "b">>

ColSets == (SUBSET Range(Cols)) \ {{}}

\* tuple(sorted(item.keys()))
SortedKeys(cols) == SelectSeq(Cols, LAMBDA c : c \in cols)

RECURSIVE Join(_, _)
\* sep.join(texts)
Join(texts, sep) ==
  IF texts = <<>> THEN <<>>
  ELSE IF Len(texts) = 1 THEN texts[1]
  ELSE LET half == Len(texts) \div 2
       IN Join(SubSeq(texts, 1, half), sep) \o sep
            \o Join(SubSeq(texts, half + 1, Len(texts)), sep)

CommaSpace == <<",", " ">>

\* f"{col}=VALUES({col})"
ValuesOf(col) == <<col, "=", "V", "A", "L", "U", "E", "S", "(", col, ")">>

\* ", ".join([f"{col}=VALUES({col})" for col in updates]): the loop takes the
\* elements of a list and the characters of a string
UpdateClause(over) == Join([i \in 1 .. Len(over) |-> ValuesOf(over[i])], CommaSpace)

\* update_fields or data_columns
UpdatesOf(fields, data_columns) == IF fields # <<>> THEN fields ELSE data_columns

RECURSIVE Grouped(_, _)
\* get_data_columns_list: the items of the dict in insertion order, the first
\* `n` rows handled
Grouped(n, all) ==
  IF n = 0 THEN <<>>
  ELSE LET before == Grouped(n - 1, all)
           k == SortedKeys(all[n])
           at == {i \in 1 .. Len(before) : before[i][1] = k}
       IN IF at = {} THEN Append(before, <<k, <<n>> >>)
          ELSE LET i == CHOOSE j \in at : TRUE
               IN [before EXCEPT ![i] = <<k, Append(before[i][2], n)>>]

\* data_columns_dict = self.get_data_columns_list(data)
GetDataColumnsList ==
  /\ up = "call"
  /\ upsert' = [upsert EXCEPT !.data_columns_dict = Grouped(Len(rows), rows),
                               !.group = 0,
                               !.up = "for"]
  /\ UNCHANGED <<crawlerVars, download, helper>>

\* for data_columns, data in data_columns_dict.items(): the next item, and
\* the lines before the while loop
ForGroup ==
  /\ up = "for"
  /\ group < Len(data_columns_dict)
  /\ upsert' = [upsert EXCEPT
                   !.group = group + 1,
                   !.data = data_columns_dict[group + 1][2],
                   !.updates = UpdatesOf(update_fields, data_columns_dict[group + 1][1]),
                   !.up = "while"]
  /\ UNCHANGED <<crawlerVars, download, helper>>

\* one pass of the while loop: the statement and parameters of one batch
YieldBatch ==
  /\ up = "while"
  /\ data # <<>>
  /\ LET data_columns == data_columns_dict[group][1]
         _d == SubSeq(data, 1, IF batch_size < Len(data) THEN batch_size ELSE Len(data))
         params == [i \in 1 .. Len(_d) |->
                      [c \in 1 .. Len(data_columns) |-> <<_d[i], data_columns[c]>>]]
         joined == UpdateClause(updates)
         sql == [columns |-> Join([c \in 1 .. Len(data_columns) |-> <<data_columns[c]>>],
                                  CommaSpace),
                 placeholders |-> Len(data_columns),
                 updates |-> joined]
     IN upsert' = [upsert EXCEPT
                     !.updates = joined,
                     !.batches = Append(batches, [sql |-> sql, params |-> params,
                                                  group |-> group]),
                     !.data = SubSeq(data, batch_size + 1, Len(data))]
  /\ UNCHANGED <<crawlerVars, download, helper>>

\* while data: the group is used up
GroupDone ==
  /\ up = "while"
  /\ data = <<>>
  /\ upsert' = [upsert EXCEPT !.up = "for"]
  /\ UNCHANGED <<crawlerVars, download, helper>>

\* the for loop has no item left: the generator is exhausted
GeneratorDone ==
  /\ up = "for"
  /\ group = Len(data_columns_dict)
  /\ upsert' = [upsert EXCEPT !.up = "done"]
  /\ UNCHANGED <<crawlerVars, download, helper>>

InitUpsert ==
  /\ CrawlerOff
  /\ DownloadOff
  /\ BuilderOff
  /\ \E r \in UNION {[1 .. n -> ColSets] : n \in 0 .. MaxRows} :
     \E b \in 1 .. MaxBatch :
     \E f \in {<<>>} \cup {<<Cols[i]>> : i \in 1 .. Len(Cols)} :
       upsert = [up |-> "call", rows |-> r, batch_size |-> b, update_fields |-> f,
                 data_columns_dict |-> <<>>, group |-> 0, data |-> <<>>, updates |-> <<>>,
                 batches |-> <<>>]

NextUpsert ==
  \/ GetDataColumnsList
  \/ ForGroup
  \/ YieldBatch
  \/ GroupDone
  \/ GeneratorDone

SpecUpsert == InitUpsert /\ [][NextUpsert]_vars

\* the rows of the batches yielded for group g, in the order yielded
RECURSIVE RowsYielded(_, _)
RowsYielded(g, n) ==
  IF n = 0 THEN <<>>
  ELSE RowsYielded(g, n - 1) \o
       (IF batches[n].group = g
          THEN [i \in 1 .. Len(batches[n].params) |-> batches[n].params[i][1][1]]
          ELSE <<>>)

\* the rows of the argument whose sorted column names are k, in order
RowsOfKey(k) == SelectSeq([i \in 1 .. Len(rows) |-> i], LAMBDA i : SortedKeys(rows[i]) = k)

\* the batches partition every group: rows grouped by their column set, at
\* most batch_size rows per batch, every row of the group exactly once
BatchesPartition ==
  up = "done" =>
    /\ \A i, j \in 1 .. Len(data_columns_dict) :
         data_columns_dict[i][1] = data_columns_dict[j][1] => i = j
    /\ \A g \in 1 .. Len(data_columns_dict) :
         /\ data_columns_dict[g][2] = RowsOfKey(data_columns_dict[g][1])
         /\ RowsYielded(g, Len(batches)) = data_columns_dict[g][2]
    /\ \A r \in 1 .. Len(rows) :
         \E g \in 1 .. Len(data_columns_dict) : data_columns_dict[g][1] = SortedKeys(rows[r])
    /\ \A n \in 1 .. Len(batches) :
         /\ Len(batches[n].params) \in 1 .. batch_size
         /\ \A i \in 1 .. Len(batches[n].params) :
              batches[n].params[i] =
                [c \in 1 .. Len(data_columns_dict[batches[n].group][1]) |->
                   <<batches[n].params[i][1][1], data_columns_dict[batches[n].group][1][c]>>]

\* the statement generate_upsert_sql is to yield for a group with columns k
StatementOf(k) ==
  [columns |-> Join([c \in 1 .. Len(k) |-> <<k[c]>>], CommaSpace),
   placeholders |-> Len(k),
   updates |-> Join([i \in 1 .. Len(UpdatesOf(update_fields, k)) |->
                       ValuesOf(UpdatesOf(update_fields, k)[i])], CommaSpace)]

\* C22: the batches of every group hold each row of the group exactly once,
\* at most batch_size rows each, and every batch of a group carries the same
\* statement, whose update clause is col=VALUES(col) for each column of
\* update_fields (or of the group's columns), the second and later batches too
C22_UpsertBatching ==
  /\ BatchesPartition
  /\ \A n \in 1 .. Len(batches) :
       batches[n].sql = StatementOf(data_columns_dict[batches[n].group][1])

(***************************************************************************)
(* The query builder of MySQLHelper, src/tools/mysql.py: table, select,    *)
(* where, order_by, limit, offset and commit on one helper.  query_builder *)
(* is a defaultdict(str) that commit reads by truth value only, so a       *)
(* missing key and the empty text are one value, <<>>.                     *)
(***************************************************************************)

\* commit calls on one helper at most
MaxQueries == 2

QueryKeys == {"table", "select", "where", "where_params", "order", "limit", "offset"}

\* query_builder after defaultdict(str) and after clear()
EmptyBuilder == [k \in QueryKeys |-> <<>>]

\* self.table_name, the default table of the helper
table_name == <<"d">>

\* arguments the caller passes
TableArgs == {<<"t">>}
SelectArgs == {<<>>, <<"a">>}
WhereArgs == {<<[k |-> "a", v |-> 1]>>}
OrderArgs == {[column |-> <<"a">>, asc |-> TRUE]}
CountArgs == {1}

\* the character U+0060 that quotes an identifier
Backquote == "U+0060"

Digits == <<"0", "1", "2", "3", "4", "5", "6", "7", "8", "9">>

\* str(count) of a count below ten
Str(count) == <<Digits[count + 1]>>

\* json.dumps of a list of such counts
Dumps(values) ==
  <<"[">> \o Join([i \in 1 .. Len(values) |-> Str(values[i])], CommaSpace) \o <<"]">>

\* json.loads of what Dumps wrote
Loads(text) ==
  CHOOSE values \in UNION {[1 .. n -> 0 .. 9] : n \in 0 .. 1} : Dumps(values) = text

\* self.query_builder["table"] = table
Table(table) ==
  /\ Len(executed) < MaxQueries
  /\ helper' = [helper EXCEPT
       !.asked = asked \cup {"table"},
       !.query_builder =
         [query_builder EXCEPT !["table"] = table]]
  /\ UNCHANGED <<crawlerVars, download, upsert>>

\* select(columns): the quoted columns, or "*" for none
Select(columns) ==
  /\ Len(executed) < MaxQueries
  /\ LET safe_columns == [i \in 1 .. Len(columns) |-> <<Backquote, columns[i], Backquote>>]
         joined == Join(safe_columns, CommaSpace)
     IN helper' = [helper EXCEPT
                     !.asked = asked \cup {"select"},
                     !.query_builder =
                        [query_builder EXCEPT
                           !["select"] = IF joined # <<>> THEN joined ELSE <<"*">>]]
  /\ UNCHANGED <<crawlerVars, download, upsert>>

\* where(**conditions)
Where(conditions) ==
  /\ Len(executed) < MaxQueries
  /\ helper' = [helper EXCEPT
       !.asked = asked \cup {"where"},
       !.query_builder =
         [query_builder EXCEPT
            !["where"] = Join([i \in 1 .. Len(conditions) |->
                                 <<Backquote, conditions[i].k, Backquote, "=", "%", "s">>],
                              <<" ", "A", "N", "D", " ">>),
            !["where_params"] = Dumps([i \in 1 .. Len(conditions) |-> conditions[i].v])]]
  /\ UNCHANGED <<crawlerVars, download, upsert>>

\* order_by(column, asc)
OrderBy(column, asc) ==
  /\ Len(executed) < MaxQueries
  /\ helper' = [helper EXCEPT
       !.asked = asked \cup {"order"},
       !.query_builder =
         [query_builder EXCEPT
            !["order"] = column \o <<" ">> \o
                         (IF asc THEN <<"A", "S", "C">> ELSE <<"D", "E", "S", "C">>)]]
  /\ UNCHANGED <<crawlerVars, download, upsert>>

\* limit(count)
Limit(count) ==
  /\ Len(executed) < MaxQueries
  /\ helper' = [helper EXCEPT
       !.asked = asked \cup {"limit"},
       !.query_builder =
         [query_builder EXCEPT !["limit"] = Str(count)]]
  /\ UNCHANGED <<crawlerVars, download, upsert>>

\* offset(count)
Offset(count) ==
  /\ Len(executed) < MaxQueries
  /\ helper' = [helper EXCEPT
       !.asked = asked \cup {"offset"},
       !.query_builder =
         [query_builder EXCEPT !["offset"] = Str(count)]]
  /\ UNCHANGED <<crawlerVars, download, upsert>>

\* the statement commit builds from query_builder, clause by clause
SqlOf(builder) ==
  [select |-> builder["select"],
   table |-> IF builder["table"] # <<>> THEN builder["table"] ELSE table_name,
   where |-> builder["where"],
   params |-> IF builder["where"] # <<>> THEN Loads(builder["where_params"]) ELSE <<>>,
   order |-> builder["order"],
   limit |-> builder["limit"],
   offset |-> IF builder["limit"] # <<>> THEN builder["offset"] ELSE <<>>]

\* query_builder when commit is left: clear() is the statement after
\* fetchall, which an exception out of execute or fetchall skips
Cleared(raised) == IF raised THEN query_builder ELSE EmptyBuilder

\* commit(): cursor.execute either returns or raises a pymysql.Error, which
\* handle_errors logs and raises again
Commit(raised) ==
  /\ Len(executed) < MaxQueries
  /\ helper' = [executed |-> Append(executed, [sql |-> SqlOf(query_builder),
                                               asked |-> asked]),
                query_builder |-> Cleared(raised),
                failures |-> IF raised THEN failures + 1 ELSE failures,
                asked |-> {}]
  /\ UNCHANGED <<crawlerVars, download, upsert>>

InitBuilder ==
  /\ CrawlerOff
  /\ DownloadOff
  /\ UpsertOff
  /\ helper = [query_builder |-> EmptyBuilder, asked |-> {}, executed |-> <<>>,
               failures |-> 0]

NextBuilder ==
  \/ \E table \in TableArgs : Table(table)
  \/ \E columns \in SelectArgs : Select(columns)
  \/ \E conditions \in WhereArgs : Where(conditions)
  \/ \E o \in OrderArgs : OrderBy(o.column, o.asc)
  \/ \E count \in CountArgs : Limit(count)
  \/ \E count \in CountArgs : Offset(count)
  \/ \E raised \in BOOLEAN : Commit(raised)

SpecBuilder == InitBuilder /\ [][NextBuilder]_vars

\* the clauses of a statement that a builder method has to have set
ClausesIn(sql) ==
  {c \in {"where", "order", "limit", "offset"} : sql[c] # <<>>}
    \cup (IF sql.table # table_name THEN {"table"} ELSE {})

\* C23: after commit has finished, with rows or with a database error,
\* query_builder is empty, and the statement of every query holds only
\* clauses that were set for that query
C23_BuilderIsolation ==
  /\ asked = {} => query_builder = EmptyBuilder
  /\ \A n \in 1 .. Len(executed) : ClausesIn(executed[n].sql) \subseteq executed[n].asked

====
